---- MODULE Spec2Model ----
(***************************************************************************)
(* Model of the resilience-and-extraction core of gemini-simplemem:        *)
(*   src/utils/llm_client.py  LLMClient.chat_completion (retry loop),      *)
(*                            _handle_streaming_response (aggregator),     *)
(*                            extract_json (strategy chain),               *)
(*                            _clean_json_string (lenient cleaner),        *)
(*                            _extract_balanced_json (balanced scanner).   *)
(*                                                                         *)
(* A text is a sequence of characters, each a TLA+ string (the backtick is  *)
(* written BT).  Positions are 1-based; a search that finds nothing yields *)
(* 0 (Python: -1).                                                         *)
(***************************************************************************)
EXTENDS Integers, Sequences, FiniteSets, TLC

(***************************************************************************)
(* Characters and the str methods the code uses                            *)
(***************************************************************************)

\* str.strip() / str.isspace(): the ASCII whitespace of the modelled alphabet
PyWhitespace == {" ", "\n", "\t", "\r"}

\* json.decoder.WHITESPACE = [ \t\n\r]*
JsonWs == {" ", "\n", "\t", "\r"}

\* re: \s on the modelled alphabet
ReSpace == {" ", "\n", "\t", "\r"}

UpperLetters ==
  <<"A","B","C","D","E","F","G","H","I","J","K","L","M",
    "N","O","P","Q","R","S","T","U","V","W","X","Y","Z">>

LowerLetters ==
  <<"a","b","c","d","e","f","g","h","i","j","k","l","m",
    "n","o","p","q","r","s","t","u","v","w","x","y","z">>

\* str.lower() on one character
LowerChar(c) ==
  IF \E k \in 1..26 : UpperLetters[k] = c
  THEN LowerLetters[CHOOSE k \in 1..26 : UpperLetters[k] = c]
  ELSE c

\* str.lower()
Lower(s) == [k \in 1..Len(s) |-> LowerChar(s[k])]

\* s[a-1:b] in Python terms: the characters at positions a..b, clamped to the
\* text (empty when b < a)
Slice(s, a, b) ==
  LET hi == IF b > Len(s) THEN Len(s) ELSE b
  IN  IF hi < a THEN <<>> ELSE SubSeq(s, a, hi)

\* does pat occur in s at position i
MatchAt(s, pat, i) ==
  /\ i >= 1
  /\ i + Len(pat) - 1 <= Len(s)
  /\ \A k \in 1..Len(pat) : s[i + k - 1] = pat[k]

\* str.find(pat, start): the lowest position >= start where pat occurs, 0 if none
Find(s, pat, start) ==
  LET hits == {i \in start..(Len(s) - Len(pat) + 1) : MatchAt(s, pat, i)}
  IN  IF hits = {} THEN 0 ELSE CHOOSE i \in hits : \A j \in hits : i <= j

\* pat in s
Contains(s, pat) == Find(s, pat, 1) # 0

\* str.startswith
StartsWith(s, pat) == MatchAt(s, pat, 1)

\* str.strip()
Strip(s) ==
  LET keep == {i \in 1..Len(s) : s[i] \notin PyWhitespace}
  IN  IF keep = {} THEN <<>>
      ELSE LET a == CHOOSE i \in keep : \A j \in keep : i <= j
               b == CHOOSE i \in keep : \A j \in keep : i >= j
           IN  SubSeq(s, a, b)

\* ''.join(parts): concatenation of a sequence of texts
RECURSIVE Join(_)
Join(parts) ==
  IF parts = <<>> THEN <<>> ELSE Head(parts) \o Join(Tail(parts))

(***************************************************************************)
(* json.loads                                                              *)
(* A parsed value is <<"str", chars>>, <<"num", n>>, <<"lit", name>>,      *)
(* <<"arr", <<v1, ..., vn>>>> or <<"obj", [key |-> value]>> (a dict: the   *)
(* last duplicate key wins, order is immaterial).                          *)
(* Modelled: objects, arrays, strings with the one-character escapes,      *)
(* integers, true/false/null.  Not modelled: fractions, exponents, \u      *)
(* escapes, NaN/Infinity; the inputs below never contain them.             *)
(***************************************************************************)

Fail == [ok |-> FALSE, val |-> <<>>, end |-> 0]

Ok(v, e) == [ok |-> TRUE, val |-> v, end |-> e]

Digits == <<"0","1","2","3","4","5","6","7","8","9">>

IsDigit(c) == \E k \in 1..10 : Digits[k] = c

DigitVal(c) == (CHOOSE k \in 1..10 : Digits[k] = c) - 1

\* json.decoder.BACKSLASH: the character an escape stands for
EscapeChars == {"\"", "\\", "/", "b", "f", "n", "r", "t"}

Unescape(c) ==
  CASE c = "n" -> "\n"
    [] c = "t" -> "\t"
    [] c = "r" -> "\r"
    [] c = "b" -> "<BS>"
    [] c = "f" -> "<FF>"
    [] OTHER -> c

\* strict mode: a control character may not appear raw inside a string
ControlChars == {"\n", "\t", "\r"}

RECURSIVE SkipWs(_, _)
SkipWs(s, i) ==
  IF i <= Len(s) /\ s[i] \in JsonWs THEN SkipWs(s, i + 1) ELSE i

\* py_scanstring: i is the position after the opening quote
RECURSIVE ScanString(_, _, _)
ScanString(s, i, acc) ==
  IF i > Len(s) THEN Fail
  ELSE IF s[i] = "\"" THEN Ok(<<"str", acc>>, i + 1)
  ELSE IF s[i] = "\\" THEN
         IF i + 1 <= Len(s) /\ s[i + 1] \in EscapeChars
         THEN ScanString(s, i + 2, Append(acc, Unescape(s[i + 1])))
         ELSE Fail
  ELSE IF s[i] \in ControlChars THEN Fail
  ELSE ScanString(s, i + 1, Append(acc, s[i]))

\* the [0-9]* tail of NUMBER_RE
RECURSIVE ScanDigits(_, _, _)
ScanDigits(s, i, n) ==
  IF i <= Len(s) /\ IsDigit(s[i])
  THEN ScanDigits(s, i + 1, 10 * n + DigitVal(s[i]))
  ELSE [val |-> n, end |-> i]

\* NUMBER_RE.match: -?(?:0|[1-9][0-9]*)
MatchNumber(s, i) ==
  LET neg == i <= Len(s) /\ s[i] = "-"
      j   == IF neg THEN i + 1 ELSE i
  IN  IF j > Len(s) \/ ~IsDigit(s[j]) THEN Fail
      ELSE IF s[j] = "0" THEN Ok(<<"num", 0>>, j + 1)
      ELSE LET d == ScanDigits(s, j, 0)
           IN  Ok(<<"num", IF neg THEN 0 - d.val ELSE d.val>>, d.end)

LitNull == <<"n","u","l","l">>
LitTrue == <<"t","r","u","e">>
LitFalse == <<"f","a","l","s","e">>

RECURSIVE ScanOnce(_, _), ObjectLoop(_, _, _), ArrayLoop(_, _, _)

\* JSONObject: i is the position after "{"
ParseObject(s, i) ==
  LET j == SkipWs(s, i)
  IN  IF j > Len(s) THEN Fail
      ELSE IF s[j] = "}" THEN Ok(<<"obj", <<>>>>, j + 1)
      ELSE IF s[j] = "\"" THEN ObjectLoop(s, j + 1, <<>>)
      ELSE Fail

\* one "key": value member; i is the position after the key's opening quote
ObjectLoop(s, i, acc) ==
  LET k == ScanString(s, i, <<>>)
  IN  IF ~k.ok THEN Fail
      ELSE
        LET c == SkipWs(s, k.end)
        IN  IF c > Len(s) \/ s[c] # ":" THEN Fail
            ELSE
              LET v == ScanOnce(s, SkipWs(s, c + 1))
              IN  IF ~v.ok THEN Fail
                  ELSE
                    LET key == k.val[2]
                        dict == [x \in (DOMAIN acc) \cup {key} |->
                                   IF x = key THEN v.val ELSE acc[x]]
                        n == SkipWs(s, v.end)
                    IN  IF n > Len(s) THEN Fail
                        ELSE IF s[n] = "}" THEN Ok(<<"obj", dict>>, n + 1)
                        ELSE IF s[n] = "," THEN
                               LET q == SkipWs(s, n + 1)
                               IN  IF q <= Len(s) /\ s[q] = "\""
                                   THEN ObjectLoop(s, q + 1, dict)
                                   ELSE Fail
                        ELSE Fail

\* JSONArray: i is the position after "["
ParseArray(s, i) ==
  LET j == SkipWs(s, i)
  IN  IF j > Len(s) THEN Fail
      ELSE IF s[j] = "]" THEN Ok(<<"arr", <<>>>>, j + 1)
      ELSE ArrayLoop(s, j, <<>>)

ArrayLoop(s, i, acc) ==
  LET v == ScanOnce(s, i)
  IN  IF ~v.ok THEN Fail
      ELSE
        LET items == Append(acc, v.val)
            n == SkipWs(s, v.end)
        IN  IF n > Len(s) THEN Fail
            ELSE IF s[n] = "]" THEN Ok(<<"arr", items>>, n + 1)
            ELSE IF s[n] = "," THEN ArrayLoop(s, SkipWs(s, n + 1), items)
            ELSE Fail

\* scanner.py_make_scanner._scan_once
ScanOnce(s, i) ==
  IF i > Len(s) THEN Fail
  ELSE IF s[i] = "\"" THEN ScanString(s, i + 1, <<>>)
  ELSE IF s[i] = "{" THEN ParseObject(s, i + 1)
  ELSE IF s[i] = "[" THEN ParseArray(s, i + 1)
  ELSE IF MatchAt(s, LitNull, i) THEN Ok(<<"lit", "null">>, i + 4)
  ELSE IF MatchAt(s, LitTrue, i) THEN Ok(<<"lit", "true">>, i + 4)
  ELSE IF MatchAt(s, LitFalse, i) THEN Ok(<<"lit", "false">>, i + 5)
  ELSE MatchNumber(s, i)

\* json.loads: JSONDecoder.decode; ok = FALSE stands for json.JSONDecodeError
JsonLoads(s) ==
  LET r == ScanOnce(s, SkipWs(s, 1))
  IN  IF ~r.ok THEN Fail
      ELSE IF SkipWs(s, r.end) # Len(s) + 1 THEN Fail
      ELSE Ok(r.val, 0)

(***************************************************************************)
(* LLMClient._clean_json_string                                            *)
(***************************************************************************)

RECURSIVE SkipReSpace(_, _)
SkipReSpace(s, i) ==
  IF i <= Len(s) /\ s[i] \in ReSpace THEN SkipReSpace(s, i + 1) ELSE i

\* does ,(\s*[}\]]) match at i
TrailingCommaAt(s, i) ==
  /\ s[i] = ","
  /\ LET j == SkipReSpace(s, i + 1)
     IN  j <= Len(s) /\ s[j] \in {"}", "]"}

\* re.sub(r',(\s*[}\]])', r'\1', json_str)
RECURSIVE SubTrailingCommas(_, _)
SubTrailingCommas(s, i) ==
  IF i > Len(s) THEN <<>>
  ELSE IF TrailingCommaAt(s, i) THEN SubTrailingCommas(s, i + 1)
  ELSE <<s[i]>> \o SubTrailingCommas(s, i + 1)

SlashSlash == <<"/", "/">>
SlashStar == <<"/", "*">>
StarSlash == <<"*", "/">>
Newline == <<"\n">>

\* re.sub(r'//.*?$', '', json_str, flags=re.MULTILINE): "." stops at "\n"
RECURSIVE SubLineComments(_, _)
SubLineComments(s, i) ==
  IF i > Len(s) THEN <<>>
  ELSE IF MatchAt(s, SlashSlash, i)
       THEN LET nl == Find(s, Newline, i + 2)
            IN  IF nl = 0 THEN <<>> ELSE SubLineComments(s, nl)
  ELSE <<s[i]>> \o SubLineComments(s, i + 1)

\* re.sub(r'/\*.*?\*/', '', json_str, flags=re.DOTALL)
RECURSIVE SubBlockComments(_, _)
SubBlockComments(s, i) ==
  IF i > Len(s) THEN <<>>
  ELSE IF MatchAt(s, SlashStar, i) /\ Find(s, StarSlash, i + 2) # 0
       THEN SubBlockComments(s, Find(s, StarSlash, i + 2) + 2)
  ELSE <<s[i]>> \o SubBlockComments(s, i + 1)

_clean_json_string(json_str) ==
  LET s1 == SubTrailingCommas(json_str, 1)
      s2 == SubLineComments(s1, 1)
      s3 == SubBlockComments(s2, 1)
  IN  Strip(s3)

(***************************************************************************)
(* LLMClient._extract_balanced_json                                        *)
(***************************************************************************)

EndCharOf(start_char) == IF start_char = "{" THEN "}" ELSE "]"

\* the scan state before the first character; closed: the iteration took the
\* "if depth == 0" branch
ScanStart ==
  [depth |-> 0, in_string |-> FALSE, escape_next |-> FALSE, closed |-> FALSE]

\* a scanner that counts the characters inside strings too
ScanStepNaive(st, char, start_char) ==
  IF st.escape_next THEN [st EXCEPT !.escape_next = FALSE]
  ELSE IF char = "\\" THEN [st EXCEPT !.escape_next = TRUE]
  ELSE IF char = "\"" THEN [st EXCEPT !.in_string = ~st.in_string]
  ELSE IF char = start_char THEN [st EXCEPT !.depth = st.depth + 1]
  ELSE IF char = EndCharOf(start_char)
       THEN [st EXCEPT !.depth = st.depth - 1, !.closed = (st.depth - 1 = 0)]
  ELSE st

\* a scanner for which a backslash is a character like any other
ScanStepNoEscape(st, char, start_char) ==
  IF char = "\"" THEN [st EXCEPT !.in_string = ~st.in_string]
  ELSE IF st.in_string THEN st
  ELSE IF char = start_char THEN [st EXCEPT !.depth = st.depth + 1]
  ELSE IF char = EndCharOf(start_char)
       THEN [st EXCEPT !.depth = st.depth - 1, !.closed = (st.depth - 1 = 0)]
  ELSE st

\* one iteration of the loop body on char
ScanStep(st, char, start_char) ==
  IF st.escape_next THEN [st EXCEPT !.escape_next = FALSE]
  ELSE IF char = "\\" THEN [st EXCEPT !.escape_next = TRUE]
  ELSE IF char = "\"" THEN [st EXCEPT !.in_string = ~st.in_string]
  ELSE IF st.in_string THEN st
  ELSE IF char = start_char THEN [st EXCEPT !.depth = st.depth + 1]
  ELSE IF char = EndCharOf(start_char)
       THEN [st EXCEPT !.depth = st.depth - 1, !.closed = (st.depth - 1 = 0)]
  ELSE st

\* the position i at which the loop finds depth = 0, or 0 if it runs off the text
RECURSIVE BalancedEnd(_, _, _, _)
BalancedEnd(text, start_char, i, st) ==
  IF i > Len(text) THEN 0
  ELSE LET next == ScanStep(st, text[i], start_char)
       IN  IF next.closed THEN i ELSE BalancedEnd(text, start_char, i + 1, next)

\* what the code does with the balanced region json_str: parse it; on failure
\* clean it and parse json_str (not the cleaned text) again
ParseBalancedRegion(json_str) ==
  LET first == JsonLoads(json_str)
      cleaned == _clean_json_string(json_str)
  IN  IF first.ok THEN first ELSE JsonLoads(json_str)

\* Fail stands for the None the code returns
_extract_balanced_json(text, start_char) ==
  LET start_idx == Find(text, <<start_char>>, 1)
  IN  IF start_idx = 0 THEN Fail
      ELSE LET e == BalancedEnd(text, start_char, start_idx, ScanStart)
           IN  IF e = 0 THEN Fail
               ELSE ParseBalancedRegion(Slice(text, start_idx, e))

(***************************************************************************)
(* LLMClient.extract_json: the strategies, each as a function of the text  *)
(***************************************************************************)

\* common_prefixes, in list order
common_prefixes ==
  <<<<"H","e","r","e","'","s"," ","t","h","e"," ","J","S","O","N",":">>,
    <<"H","e","r","e"," ","i","s"," ","t","h","e"," ","J","S","O","N",":">>,
    <<"T","h","e"," ","J","S","O","N"," ","i","s",":">>,
    <<"J","S","O","N",":">>,
    <<"R","e","s","u","l","t",":">>,
    <<"O","u","t","p","u","t",":">>,
    <<"A","n","s","w","e","r",":">>>>

\* a prefix loop that looks for the phrase anywhere in the text
RECURSIVE StripPrefixesAnywhere(_, _)
StripPrefixesAnywhere(text, k) ==
  IF k > Len(common_prefixes) THEN text
  ELSE LET prefix == common_prefixes[k]
       IN  IF Contains(Lower(text), Lower(prefix))
           THEN StripPrefixesAnywhere(Strip(Slice(text, Len(prefix) + 1, Len(text))), k + 1)
           ELSE StripPrefixesAnywhere(text, k + 1)

\* a prefix loop that removes a phrase as long as the text starts with it
RECURSIVE StripPrefixesRepeatedly(_, _)
StripPrefixesRepeatedly(text, k) ==
  IF k > Len(common_prefixes) THEN text
  ELSE LET prefix == common_prefixes[k]
       IN  IF StartsWith(Lower(text), Lower(prefix))
           THEN StripPrefixesRepeatedly(Strip(Slice(text, Len(prefix) + 1, Len(text))), k)
           ELSE StripPrefixesRepeatedly(text, k + 1)

\* the prefix loop: every prefix of the list, in order, is tested against the
\* text as the earlier iterations left it
RECURSIVE StripPrefixes(_, _)
StripPrefixes(text, k) ==
  IF k > Len(common_prefixes) THEN text
  ELSE LET prefix == common_prefixes[k]
       IN  IF StartsWith(Lower(text), Lower(prefix))
           THEN StripPrefixes(Strip(Slice(text, Len(prefix) + 1, Len(text))), k + 1)
           ELSE StripPrefixes(text, k + 1)

\* an emptiness test that does not look through whitespace: "if not text"
IsEmptyResponseNoStrip(is_none, text) == is_none \/ Len(text) = 0

\* "if not text or not text.strip()"
IsEmptyResponse(is_none, text) == is_none \/ Len(text) = 0 \/ Strip(text) = <<>>

\* text after "text = text.strip()" and the prefix loop
Prepared(text) == StripPrefixes(Strip(text), 1)

\* the backtick character (the grave accent cannot be written in a TLA+ string)
BT == "<BT>"

FenceJson == <<BT, BT, BT, "j", "s", "o", "n">>
Fence == <<BT, BT, BT>>

\* json.loads(json_str); on JSONDecodeError json.loads(_clean_json_string(json_str))
ParseThenClean(json_str) ==
  LET first == JsonLoads(json_str)
  IN  IF first.ok THEN first ELSE JsonLoads(_clean_json_string(json_str))

\* "Try direct parsing first"
DirectParse(text) == JsonLoads(text)

\* "Try extracting JSON from ```json ... ``` block"
LabeledFence(text) ==
  IF ~Contains(Lower(text), FenceJson) THEN Fail
  ELSE LET start_idx == Find(Lower(text), FenceJson, 1)
           start == start_idx + Len(FenceJson)
           end == Find(text, Fence, start)
       IN  IF end = 0 THEN Fail
           ELSE ParseThenClean(Strip(Slice(text, start, end - 1)))

\* the longest label line skipped after an opening fence: "newline - start < 20"
MaxLabelLine == 20

\* "Try extracting from generic ``` ... ``` code block"
GenericFence(text) ==
  IF ~Contains(text, Fence) THEN Fail
  ELSE LET start0 == Find(text, Fence, 1) + 3
           newline == Find(text, Newline, start0)
           start == IF newline # 0 /\ newline - start0 < MaxLabelLine
                    THEN newline + 1 ELSE start0
           end == Find(text, Fence, start)
       IN  IF end = 0 THEN Fail
           ELSE ParseThenClean(Strip(Slice(text, start, end - 1)))

\* one iteration of "Try finding balanced JSON object/array"
BalancedScan(text, start_char) == _extract_balanced_json(text, start_char)

\* one iteration of "Last resort: try to find any JSON-like structure"
BestEffortSuffix(text, start_char) ==
  LET start_idx == Find(text, <<start_char>>, 1)
  IN  IF start_idx = 0 THEN Fail
      ELSE JsonLoads(_clean_json_string(Slice(text, start_idx, Len(text))))

\* the excerpt length of the final ValueError: text[:300]
ExcerptLen == 300

\* an error message that carries the whole text
ExcerptAll(text) == text

\* text[:300]
Excerpt(text) == Slice(text, 1, ExcerptLen)

(***************************************************************************)
(* State                                                                   *)
(***************************************************************************)

VARIABLES
  \* LLMClient.chat_completion and _handle_streaming_response
  pc,             \* position in chat_completion
  max_retries,    \* the max_retries argument
  use_streaming,  \* self.use_streaming
  attempt,        \* the loop variable
  last_exception, \* NoException, or the cause raised by a failed attempt
  in_flight,      \* backend calls issued and not yet ended
  events,         \* the backend calls and sleeps so far, in order
  full_content,   \* the aggregator's list of fragments
  payload,        \* the logical content the backend answers the attempt with
  remaining,      \* the part of payload the stream has not delivered yet
  delivered,      \* the increments the stream of this attempt has delivered
  discarded,      \* TRUE once an attempt that had aggregated text failed
  result,         \* the returned text / the raised error
  \* LLMClient.extract_json
  x_pc,           \* position in extract_json
  x_none,         \* the argument is None
  x_input,        \* the argument
  x_text,         \* the local variable text
  x_trace,        \* the strategies entered so far, in order
  x_calls,        \* how often json.loads, the cleaner and the scanner ran
  x_result,       \* the returned value / the raised error
  \* LLMClient._extract_balanced_json
  s_pc,           \* position in _extract_balanced_json
  s_text,         \* the argument text
  s_start_char,   \* the argument start_char
  s_start_idx,    \* start_idx (0: not found)
  s_i,            \* the loop variable i
  depth,
  in_string,
  escape_next,
  s_json_str,     \* the balanced region, once found
  s_result,       \* the returned value (Fail: None)
  \* LLMClient._clean_json_string
  c_pc,           \* how many times the cleaner has been applied to c_input
  c_input,        \* the text first handed to the cleaner
  c_text,         \* the text as the last application returned it
  c_prev,         \* the text as the application before that returned it
  \* EmbeddingModel.encode_documents
  e_pc,           \* position in encode_documents
  e_texts,        \* the argument texts
  e_delivery,     \* response['data'] as the backend delivered it
  e_data,         \* the local variable data
  e_result        \* the returned list of vectors / the raised error

execVars ==
  <<pc, max_retries, use_streaming, attempt, last_exception, in_flight, events,
    full_content, payload, remaining, delivered, discarded, result>>

extractVars == <<x_pc, x_none, x_input, x_text, x_trace, x_calls, x_result>>

scanVars ==
  <<s_pc, s_text, s_start_char, s_start_idx, s_i, depth, in_string, escape_next,
    s_json_str, s_result>>

cleanVars == <<c_pc, c_input, c_text, c_prev>>

embedVars == <<e_pc, e_texts, e_delivery, e_data, e_result>>

vars == <<execVars, extractVars, scanVars, cleanVars, embedVars>>

\* what a step of one component leaves alone
notExec == <<extractVars, scanVars, cleanVars, embedVars>>
notExtract == <<execVars, scanVars, cleanVars, embedVars>>
notScan == <<execVars, extractVars, cleanVars, embedVars>>
notClean == <<execVars, extractVars, scanVars, embedVars>>
notEmbed == <<execVars, extractVars, scanVars, cleanVars>>

(***************************************************************************)
(* LLMClient.chat_completion                                               *)
(***************************************************************************)

\* the largest max_retries a call is made with
MaxRetries == 4

\* the longest logical content of one backend answer
MaxContentLen == 2

\* the most chunks one stream delivers
MaxChunks == 4

\* the characters backend answers are made of
ContentChars == {"a", " "}

RECURSIVE TextsUpTo(_, _)
TextsUpTo(chars, n) ==
  IF n = 0 THEN {<<>>}
  ELSE LET shorter == TextsUpTo(chars, n - 1)
       IN  shorter \cup {Append(t, c) : t \in {u \in shorter : Len(u) = n - 1}, c \in chars}

Contents == TextsUpTo(ContentChars, MaxContentLen)

\* last_exception = None
NoException == [kind |-> "None", attempt |-> 0]

\* the exception a failed attempt raises: what failed, and in which attempt
FailureKinds == {"transport", "malformed"}

Cause(kind, k) == [kind |-> kind, attempt |-> k]

\* "raise last_exception" with last_exception = None
RaiseNoneTypeError == [kind |-> "TypeError", attempt |-> 0]

\* a backoff that grows linearly: 0, 2, 4, ...
WaitTimeLinear(k) == 2 * k

\* wait_time = (2 ** attempt)
WaitTime(k) == 2 ^ k

\* an aggregator that lives across attempts
KeptContent(previous) == previous

\* "full_content = []": every call of _handle_streaming_response starts empty
FreshContent(previous) == <<>>

\* the chunk kinds a stream delivers: no choices, a delta without content,
\* a delta with a text fragment
NoChoices == [choices |-> 0, has_content |-> FALSE, content |-> <<>>]
NoContent == [choices |-> 1, has_content |-> FALSE, content |-> <<>>]
Fragment(t) == [choices |-> 1, has_content |-> TRUE, content |-> t]

\* an aggregator that puts the newest fragment first
AggregateNewestFirst(content_list, chunk) ==
  IF chunk.choices > 0 /\ chunk.has_content
  THEN <<chunk.content>> \o content_list
  ELSE content_list

\* the loop body of _handle_streaming_response on one chunk
Aggregate(content_list, chunk) ==
  IF chunk.choices > 0 /\ chunk.has_content
  THEN Append(content_list, chunk.content)
  ELSE content_list

ExecIdle ==
  /\ pc = "off"
  /\ max_retries = 0
  /\ use_streaming = FALSE
  /\ attempt = 0
  /\ last_exception = NoException
  /\ in_flight = 0
  /\ events = <<>>
  /\ full_content = <<>>
  /\ payload = <<>>
  /\ remaining = <<>>
  /\ delivered = <<>>
  /\ discarded = FALSE
  /\ result = [kind |-> "none"]

ExecInit ==
  /\ pc = "loop"
  /\ max_retries \in (-1)..MaxRetries
  /\ use_streaming \in BOOLEAN
  /\ attempt = 0
  /\ last_exception = NoException
  /\ in_flight = 0
  /\ events = <<>>
  /\ full_content = <<>>
  /\ payload = <<>>
  /\ remaining = <<>>
  /\ delivered = <<>>
  /\ discarded = FALSE
  /\ result = [kind |-> "none"]

\* an except clause that keeps the cause of the first failure
ExceptKeepsFirst(e) ==
  /\ last_exception' = IF last_exception = NoException THEN e ELSE last_exception
  /\ in_flight' = in_flight - 1
  /\ IF attempt < max_retries - 1
     THEN /\ events' = Append(events, <<"wait", WaitTime(attempt)>>)
          /\ pc' = "sleeping"
          /\ attempt' = attempt
     ELSE /\ events' = events
          /\ pc' = "loop"
          /\ attempt' = attempt + 1

\* the except clause: remember the cause, then sleep or fall out of the iteration
\* (attempt = max_retries stands for the exhausted range)
Except(e) ==
  /\ last_exception' = e
  /\ in_flight' = in_flight - 1
  /\ IF attempt < max_retries - 1
     THEN /\ events' = Append(events, <<"wait", WaitTime(attempt)>>)
          /\ pc' = "sleeping"
          /\ attempt' = attempt
     ELSE /\ events' = events
          /\ pc' = "loop"
          /\ attempt' = attempt + 1

\* "for attempt in range(max_retries)": the next iteration issues the backend call
Call ==
  /\ pc = "loop"
  /\ attempt < max_retries
  /\ events' = Append(events, <<"attempt", attempt>>)
  /\ in_flight' = in_flight + 1
  /\ pc' = IF use_streaming THEN "opening" ELSE "completion"
  /\ UNCHANGED <<max_retries, use_streaming, attempt, last_exception, full_content,
                 payload, remaining, delivered, discarded, result>>
  /\ UNCHANGED notExec

\* a success that is recorded but does not leave the retry loop
CompletionReturnsAndGoesOn ==
  /\ pc = "completion"
  /\ \E c \in Contents :
       /\ payload' = c
       /\ result' = [kind |-> "text", text |-> c]
  /\ in_flight' = in_flight - 1
  /\ pc' = "loop"
  /\ attempt' = attempt + 1
  /\ UNCHANGED <<max_retries, use_streaming, last_exception, events,
                 full_content, remaining, delivered, discarded>>
  /\ UNCHANGED notExec

\* a response whose content is blank is handled as a failed attempt
CompletionRetriesBlank ==
  /\ pc = "completion"
  /\ \E c \in Contents :
       /\ payload' = c
       /\ IF Strip(c) = <<>>
          THEN /\ Except(Cause("malformed", attempt))
               /\ result' = result
          ELSE /\ result' = [kind |-> "text", text |-> c]
               /\ in_flight' = in_flight - 1
               /\ pc' = "returned"
               /\ UNCHANGED <<attempt, last_exception, events>>
  /\ UNCHANGED <<max_retries, use_streaming, full_content, remaining, delivered,
                 discarded>>
  /\ UNCHANGED notExec

\* non-streaming: completion returns and its content is returned to the caller
CompletionReturns ==
  /\ pc = "completion"
  /\ \E c \in Contents :
       /\ payload' = c
       /\ result' = [kind |-> "text", text |-> c]
  /\ in_flight' = in_flight - 1
  /\ pc' = "returned"
  /\ UNCHANGED <<max_retries, use_streaming, attempt, last_exception, events,
                 full_content, remaining, delivered, discarded>>
  /\ UNCHANGED notExec

\* non-streaming: completion raises, or the response has no choices[0]
CompletionFails ==
  /\ pc = "completion"
  /\ \E kind \in FailureKinds : Except(Cause(kind, attempt))
  /\ UNCHANGED <<max_retries, use_streaming, full_content, payload, remaining,
                 delivered, discarded, result>>
  /\ UNCHANGED notExec

\* streaming: _handle_streaming_response starts and completion returns a stream
StreamOpens ==
  /\ pc = "opening"
  /\ full_content' = FreshContent(full_content)
  /\ \E c \in Contents :
       /\ payload' = c
       /\ remaining' = c
  /\ delivered' = <<>>
  /\ pc' = "streaming"
  /\ UNCHANGED <<max_retries, use_streaming, attempt, last_exception, in_flight,
                 events, discarded, result>>
  /\ UNCHANGED notExec

\* streaming: completion raises before any chunk
StreamOpenFails ==
  /\ pc = "opening"
  /\ Except(Cause("transport", attempt))
  /\ UNCHANGED <<max_retries, use_streaming, full_content, payload, remaining,
                 delivered, discarded, result>>
  /\ UNCHANGED notExec

\* streaming: the next chunk arrives; it carries the next part of the content
\* (possibly empty), or no content, or no choices
StreamChunk ==
  /\ pc = "streaming"
  /\ Len(delivered) < MaxChunks
  /\ \E chunk \in {NoChoices, NoContent}
               \cup {Fragment(Slice(remaining, 1, n)) : n \in 0..Len(remaining)} :
       /\ full_content' = Aggregate(full_content, chunk)
       /\ delivered' = Append(delivered, chunk)
       /\ remaining' = Slice(remaining, Len(chunk.content) + 1, Len(remaining))
  /\ UNCHANGED <<pc, max_retries, use_streaming, attempt, last_exception, in_flight,
                 events, payload, discarded, result>>
  /\ UNCHANGED notExec

\* streaming: the stream raises mid-delivery; the stream and what it had still
\* to deliver are gone
StreamFails ==
  /\ pc = "streaming"
  /\ Except(Cause("transport", attempt))
  /\ discarded' = (discarded \/ Join(full_content) # <<>>)
  /\ payload' = <<>>
  /\ remaining' = <<>>
  /\ delivered' = <<>>
  /\ UNCHANGED <<max_retries, use_streaming, full_content, result>>
  /\ UNCHANGED notExec

\* streaming: the stream is exhausted; the joined fragments are returned
StreamEnds ==
  /\ pc = "streaming"
  /\ remaining = <<>>
  /\ result' = [kind |-> "text", text |-> Join(full_content)]
  /\ in_flight' = in_flight - 1
  /\ pc' = "returned"
  /\ UNCHANGED <<max_retries, use_streaming, attempt, last_exception, events,
                 full_content, payload, remaining, delivered, discarded>>
  /\ UNCHANGED notExec

\* time.sleep(wait_time) returns; the loop goes to its next iteration
Wake ==
  /\ pc = "sleeping"
  /\ attempt' = attempt + 1
  /\ pc' = "loop"
  /\ UNCHANGED <<max_retries, use_streaming, last_exception, in_flight, events,
                 full_content, payload, remaining, delivered, discarded, result>>
  /\ UNCHANGED notExec

\* a loop end that returns an empty text when nothing has failed
ReturnEmptyWhenNothingFailed ==
  /\ pc = "loop"
  /\ attempt >= max_retries
  /\ IF last_exception = NoException
     THEN /\ result' = [kind |-> "text", text |-> <<>>]
          /\ pc' = "returned"
     ELSE /\ result' = [kind |-> "raised", cause |-> last_exception]
          /\ pc' = "raised"
  /\ UNCHANGED <<max_retries, use_streaming, attempt, last_exception, in_flight,
                 events, full_content, payload, remaining, delivered, discarded>>
  /\ UNCHANGED notExec

\* the loop is over without a return: "raise last_exception"
RaiseLast ==
  /\ pc = "loop"
  /\ attempt >= max_retries
  /\ result' = [kind |-> "raised",
                cause |-> IF last_exception = NoException
                          THEN RaiseNoneTypeError ELSE last_exception]
  /\ pc' = "raised"
  /\ UNCHANGED <<max_retries, use_streaming, attempt, last_exception, in_flight,
                 events, full_content, payload, remaining, delivered, discarded>>
  /\ UNCHANGED notExec

ExecNext ==
  \/ Call
  \/ CompletionReturns
  \/ CompletionFails
  \/ StreamOpens
  \/ StreamOpenFails
  \/ StreamChunk
  \/ StreamFails
  \/ StreamEnds
  \/ Wake
  \/ RaiseLast

(***************************************************************************)
(* LLMClient.extract_json as a chain of steps                              *)
(***************************************************************************)

\* a chain that scans for an array before it scans for an object
StrategiesArrayFirst ==
  <<"direct", "labeled", "generic", "scan_arr", "scan_obj", "suffix_obj", "suffix_arr">>

\* the strategies in the order the function body tries them
Strategies ==
  <<"direct", "labeled", "generic", "scan_obj", "scan_arr", "suffix_obj", "suffix_arr">>

\* a chain that skips the generic fence when the labeled fence has failed
AfterSkippingGeneric(strategy) ==
  LET k == CHOOSE n \in 1..Len(Strategies) : Strategies[n] = strategy
  IN  IF k = Len(Strategies) THEN "exhausted"
      ELSE IF strategy = "labeled" THEN "scan_obj"
      ELSE Strategies[k + 1]

\* what follows a failed strategy: the next one, or the final raise
After(strategy) ==
  LET k == CHOOSE n \in 1..Len(Strategies) : Strategies[n] = strategy
  IN  IF k = Len(Strategies) THEN "exhausted" ELSE Strategies[k + 1]

\* the outcome of one strategy on the prepared text
Apply(strategy, text) ==
  CASE strategy = "direct" -> DirectParse(text)
    [] strategy = "labeled" -> LabeledFence(text)
    [] strategy = "generic" -> GenericFence(text)
    [] strategy = "scan_obj" -> BalancedScan(text, "{")
    [] strategy = "scan_arr" -> BalancedScan(text, "[")
    [] strategy = "suffix_obj" -> BestEffortSuffix(text, "{")
    [] strategy = "suffix_arr" -> BestEffortSuffix(text, "[")

\* json_str of a fenced strategy, Fail-marked when the strategy finds no block
LabeledInterior(text) ==
  LET start == Find(Lower(text), FenceJson, 1) + Len(FenceJson)
      end == Find(text, Fence, start)
  IN  IF ~Contains(Lower(text), FenceJson) \/ end = 0
      THEN [found |-> FALSE, json_str |-> <<>>]
      ELSE [found |-> TRUE, json_str |-> Strip(Slice(text, start, end - 1))]

GenericInterior(text) ==
  LET start0 == Find(text, Fence, 1) + 3
      newline == Find(text, Newline, start0)
      start == IF newline # 0 /\ newline - start0 < MaxLabelLine
               THEN newline + 1 ELSE start0
      end == Find(text, Fence, start)
  IN  IF ~Contains(text, Fence) \/ end = 0
      THEN [found |-> FALSE, json_str |-> <<>>]
      ELSE [found |-> TRUE, json_str |-> Strip(Slice(text, start, end - 1))]

\* the balanced region a scan finds, Fail-marked when there is none
ScanRegion(text, start_char) ==
  LET start_idx == Find(text, <<start_char>>, 1)
      e == IF start_idx = 0 THEN 0
           ELSE BalancedEnd(text, start_char, start_idx, ScanStart)
  IN  IF e = 0 THEN [found |-> FALSE, json_str |-> <<>>]
      ELSE [found |-> TRUE, json_str |-> Slice(text, start_idx, e)]

\* the helpers one strategy calls on the text
CallsOfParseThenClean(block) ==
  IF ~block.found THEN {}
  ELSE IF JsonLoads(block.json_str).ok THEN {"json.loads"}
  ELSE {"json.loads", "_clean_json_string"}

CallsOf(strategy, text) ==
  CASE strategy = "direct" -> {"json.loads"}
    [] strategy = "labeled" -> CallsOfParseThenClean(LabeledInterior(text))
    [] strategy = "generic" -> CallsOfParseThenClean(GenericInterior(text))
    [] strategy = "scan_obj" ->
         {"_extract_balanced_json"} \cup CallsOfParseThenClean(ScanRegion(text, "{"))
    [] strategy = "scan_arr" ->
         {"_extract_balanced_json"} \cup CallsOfParseThenClean(ScanRegion(text, "["))
    [] strategy = "suffix_obj" ->
         IF Find(text, <<"{">>, 1) = 0 THEN {} ELSE {"_clean_json_string", "json.loads"}
    [] strategy = "suffix_arr" ->
         IF Find(text, <<"[">>, 1) = 0 THEN {} ELSE {"_clean_json_string", "json.loads"}

ExtractIdle ==
  /\ x_pc = "off"
  /\ x_none = FALSE
  /\ x_input = <<>>
  /\ x_text = <<>>
  /\ x_trace = <<>>
  /\ x_calls = {}
  /\ x_result = [kind |-> "none"]

\* "if not text or not text.strip(): raise ValueError"; else "text = text.strip()"
Enter ==
  /\ x_pc = "entry"
  /\ IF IsEmptyResponse(x_none, x_input)
     THEN /\ x_pc' = "raised"
          /\ x_result' = [kind |-> "ValueError", message |-> "Empty response received",
                          excerpt |-> <<>>]
          /\ x_text' = x_text
     ELSE /\ x_pc' = "prefix"
          /\ x_text' = Strip(x_input)
          /\ x_result' = x_result
  /\ UNCHANGED <<x_none, x_input, x_trace, x_calls>>
  /\ UNCHANGED notExtract

\* the loop over common_prefixes
StripPrefix ==
  /\ x_pc = "prefix"
  /\ x_text' = StripPrefixes(x_text, 1)
  /\ x_trace' = Append(x_trace, "prefix")
  /\ x_pc' = "direct"
  /\ UNCHANGED <<x_none, x_input, x_calls, x_result>>
  /\ UNCHANGED notExtract

\* one strategy: return its value, or go on to what follows it
Try(strategy) ==
  /\ x_pc = strategy
  /\ x_trace' = Append(x_trace, strategy)
  /\ x_calls' = x_calls \cup CallsOf(strategy, x_text)
  /\ LET r == Apply(strategy, x_text)
     IN  IF r.ok
         THEN /\ x_pc' = "returned"
              /\ x_result' = [kind |-> "value", value |-> r.val, by |-> strategy]
         ELSE /\ x_pc' = After(strategy)
              /\ x_result' = x_result
  /\ UNCHANGED <<x_none, x_input, x_text>>
  /\ UNCHANGED notExtract

TryDirect == Try("direct")

TryLabeledFence == Try("labeled")

TryGenericFence == Try("generic")

TryScanObject == Try("scan_obj")

TryScanArray == Try("scan_arr")

TrySuffixObject == Try("suffix_obj")

TrySuffixArray == Try("suffix_arr")

\* raise ValueError(f"Failed to extract valid JSON ... {text[:300]}...")
Exhausted ==
  /\ x_pc = "exhausted"
  /\ x_pc' = "raised"
  /\ x_result' = [kind |-> "ValueError",
                  message |-> "Failed to extract valid JSON from response",
                  excerpt |-> Excerpt(x_text)]
  /\ UNCHANGED <<x_none, x_input, x_text, x_trace, x_calls>>
  /\ UNCHANGED notExtract

ExtractNext ==
  \/ Enter
  \/ StripPrefix
  \/ TryDirect
  \/ TryLabeledFence
  \/ TryGenericFence
  \/ TryScanObject
  \/ TryScanArray
  \/ TrySuffixObject
  \/ TrySuffixArray
  \/ Exhausted

(***************************************************************************)
(* LLMClient._extract_balanced_json, one loop iteration per step           *)
(***************************************************************************)

ScanIdle ==
  /\ s_pc = "off"
  /\ s_text = <<>>
  /\ s_start_char = "{"
  /\ s_start_idx = 0
  /\ s_i = 0
  /\ depth = 0
  /\ in_string = FALSE
  /\ escape_next = FALSE
  /\ s_json_str = <<>>
  /\ s_result = Fail

ScanState ==
  [depth |-> depth, in_string |-> in_string, escape_next |-> escape_next,
   closed |-> FALSE]

\* start_idx = text.find(start_char); "if start_idx == -1: return None"
ScanEnter ==
  /\ s_pc = "entry"
  /\ s_start_idx' = Find(s_text, <<s_start_char>>, 1)
  /\ s_i' = s_start_idx'
  /\ s_pc' = IF s_start_idx' = 0 THEN "returned" ELSE "loop"
  /\ UNCHANGED <<s_text, s_start_char, depth, in_string, escape_next, s_json_str,
                 s_result>>
  /\ UNCHANGED notScan

\* an iteration that does not find depth 0
ScanChar ==
  /\ s_pc = "loop"
  /\ s_i <= Len(s_text)
  /\ LET st == ScanStep(ScanState, s_text[s_i], s_start_char)
     IN  /\ ~st.closed
         /\ depth' = st.depth
         /\ in_string' = st.in_string
         /\ escape_next' = st.escape_next
  /\ s_i' = s_i + 1
  /\ UNCHANGED <<s_pc, s_text, s_start_char, s_start_idx, s_json_str, s_result>>
  /\ UNCHANGED notScan

\* the iteration that finds depth 0: json_str = text[start_idx:i+1] is parsed and
\* the value is returned, or the loop is left and None is returned
ScanClose ==
  /\ s_pc = "loop"
  /\ s_i <= Len(s_text)
  /\ LET st == ScanStep(ScanState, s_text[s_i], s_start_char)
     IN  /\ st.closed
         /\ depth' = st.depth
  /\ s_json_str' = Slice(s_text, s_start_idx, s_i)
  /\ s_result' = ParseBalancedRegion(s_json_str')
  /\ s_pc' = "returned"
  /\ UNCHANGED <<s_text, s_start_char, s_start_idx, s_i, in_string, escape_next>>
  /\ UNCHANGED notScan

\* the loop runs off the text: return None
ScanRunsOut ==
  /\ s_pc = "loop"
  /\ s_i > Len(s_text)
  /\ s_pc' = "returned"
  /\ UNCHANGED <<s_text, s_start_char, s_start_idx, s_i, depth, in_string,
                 escape_next, s_json_str, s_result>>
  /\ UNCHANGED notScan

ScanNext ==
  \/ ScanEnter
  \/ ScanChar
  \/ ScanClose
  \/ ScanRunsOut

(***************************************************************************)
(* LLMClient._clean_json_string applied, and applied again to its result   *)
(***************************************************************************)

CleanIdle ==
  /\ c_pc = "off"
  /\ c_input = <<>>
  /\ c_text = <<>>
  /\ c_prev = <<>>

\* json_str = _clean_json_string(json_str), on the text as given
CleanOnce ==
  /\ c_pc = "input"
  /\ c_prev' = c_text
  /\ c_text' = _clean_json_string(c_text)
  /\ c_pc' = "once"
  /\ UNCHANGED c_input
  /\ UNCHANGED notClean

\* the cleaner applied to its own result
CleanTwice ==
  /\ c_pc = "once"
  /\ c_prev' = c_text
  /\ c_text' = _clean_json_string(c_text)
  /\ c_pc' = "twice"
  /\ UNCHANGED c_input
  /\ UNCHANGED notClean

CleanNext ==
  \/ CleanOnce
  \/ CleanTwice

(***************************************************************************)
(* EmbeddingModel.encode_documents                                         *)
(***************************************************************************)

\* one item of response['data']
Item(index, embedding) == [index |-> index, embedding |-> embedding]

\* the vector the backend computes for a text
VectorOf(text) == <<text>>

\* the orders in which n items can be delivered
DeliveryOrders(n) ==
  {p \in [1..n -> 1..n] : \A i, j \in 1..n : p[i] = p[j] => i = j}

\* the response to a call with texts, delivered in order p: the item delivered
\* k-th is that of input p[k], whose index is p[k] - 1
Response(texts, p) ==
  [k \in 1..Len(texts) |-> Item(p[k] - 1, VectorOf(texts[p[k]]))]

\* where a stable sort by index puts item among the sorted items
RECURSIVE InsertByIndex(_, _)
InsertByIndex(sorted, item) ==
  IF sorted = <<>> THEN <<item>>
  ELSE IF item.index < Head(sorted).index THEN <<item>> \o sorted
  ELSE <<Head(sorted)>> \o InsertByIndex(Tail(sorted), item)

\* data that is returned in the order of delivery
KeepDelivered(data) == data

\* data.sort(key=lambda x: x['index'])
RECURSIVE SortByIndex(_)
SortByIndex(data) ==
  IF data = <<>> THEN <<>>
  ELSE InsertByIndex(SortByIndex(SubSeq(data, 1, Len(data) - 1)), data[Len(data)])

\* [item['embedding'] for item in data]
Embeddings(data) == [k \in 1..Len(data) |-> data[k].embedding]

EmbedIdle ==
  /\ e_pc = "off"
  /\ e_texts = <<>>
  /\ e_delivery = <<>>
  /\ e_data = <<>>
  /\ e_result = [kind |-> "none"]

\* "if not texts: return []"; otherwise the backend is called with the texts
EncodeCall ==
  /\ e_pc = "entry"
  /\ IF e_texts = <<>>
     THEN /\ e_pc' = "returned"
          /\ e_result' = [kind |-> "vectors", vectors |-> <<>>]
     ELSE /\ e_pc' = "calling"
          /\ e_result' = e_result
  /\ UNCHANGED <<e_texts, e_delivery, e_data>>
  /\ UNCHANGED notEmbed

\* the backend answers with one item per text, in an order of its choosing;
\* response['data'] is a Python list, so "hasattr(data, 'sort')" holds and the
\* list is sorted in place by index before the vectors are read
EmbeddingResponds ==
  /\ e_pc = "calling"
  /\ \E p \in DeliveryOrders(Len(e_texts)) :
       /\ e_delivery' = Response(e_texts, p)
       /\ e_data' = SortByIndex(e_delivery')
       /\ e_result' = [kind |-> "vectors", vectors |-> Embeddings(e_data')]
  /\ e_pc' = "returned"
  /\ UNCHANGED e_texts
  /\ UNCHANGED notEmbed

\* the backend call raises: "except Exception as e: ... raise e"
EmbeddingRaises ==
  /\ e_pc = "calling"
  /\ e_result' = [kind |-> "raised"]
  /\ e_pc' = "raised"
  /\ UNCHANGED <<e_texts, e_delivery, e_data>>
  /\ UNCHANGED notEmbed

EmbedNext ==
  \/ EncodeCall
  \/ EmbeddingResponds
  \/ EmbeddingRaises

(***************************************************************************)
(* Inputs and specifications                                               *)
(***************************************************************************)

\* the texts made by concatenating at most n tokens
RECURSIVE TokenTexts(_, _)
TokenTexts(tokens, n) ==
  IF n = 0 THEN {<<>>}
  ELSE LET shorter == TokenTexts(tokens, n - 1)
       IN  shorter \cup {t \o k : t \in shorter, k \in tokens}

InitExec == ExecInit /\ ExtractIdle /\ ScanIdle /\ CleanIdle /\ EmbedIdle

SpecExec == InitExec /\ [][ExecNext]_vars

\* the most tokens an extract_json input is made of
MaxTokens == 3

\* the pieces extract_json inputs are made of
ExtractTokens ==
  { <<"{", "\"", "a", "\"", ":", "1", "}">>,
    <<"[", "1", ",", "]">>,
    <<BT, BT, BT, "j", "s", "o", "n">>,
    <<BT, BT, BT>>,
    <<"\n">>,
    <<"J", "S", "O", "N", ":">>,
    <<"x">>,
    <<"{">>,
    <<"\"">>,
    <<" ">> }

\* longer responses of the kinds the strategies are written for
ExtractCorpus ==
  { <<"H", "e", "r", "e", "'", "s", " ", "t", "h", "e", " ", "J", "S", "O", "N", ":", "\n", BT, BT, BT, "j", "s", "o", "n", "\n", "{", "\"", "a", "\"", ":", "1", "}", "\n", BT, BT, BT>>,
    <<"A", "n", "s", "w", "e", "r", ":", " ", BT, BT, BT, "J", "S", "O", "N", " ", "[", "2", "]", " ", BT, BT, BT, " ", "d", "o", "n", "e">>,
    <<"\"", BT, BT, BT, "j", "s", "o", "n", " ", "1", BT, BT, BT, "\"">>,
    <<BT, BT, BT, "j", "s", "o", "n", "\n", "{", "\"", "a", "\"", ":", "\"", BT, BT, BT, "\"", "}", "\n", BT, BT, BT>>,
    <<"{", " ", BT, BT, BT, "j", "s", "o", "n", "\n", "{", "\"", "a", "\"", ":", "\"", BT, BT, BT, "\"", "}", "\n", BT, BT, BT, " ">>,
    <<BT, BT, BT, "j", "s", "o", "n", "\n", "x", "\n", BT, BT, BT, " ", BT, BT, BT, "j", "s", "o", "n", "\n", "1", "\n", BT, BT, BT>>,
    <<BT, BT, BT, "p", "y", "t", "h", "o", "n", "\n", "[", "2", "]", "\n", BT, BT, BT>>,
    <<"x", " ", "[", "2", "]", " ", "y">>,
    <<"x", " ", "[", "{", "\"", "a", "\"", ":", "1", "}", ",", "{", "\"", "a", "\"", ":", "2", "}", "]", " ", "y">>,
    <<"x", " ", "{", "\"", "a", "\"", ":", "1", ",", "}", " ", "y">>,
    <<"x", " ", "{", "\"", "a", "\"", ":", "[", "1", ",", "]", "}", " ", "y">>,
    <<"T", "h", "e", " ", "J", "S", "O", "N", " ", "i", "s", ":", " ", "{", "\"", "a", "\"", ":", " ", "\"", "x", "{", "y", "}", "z", "\"", "}">>,
    <<"O", "u", "t", "p", "u", "t", ":", " ", "{", "\"", "a", "\"", ":", "1", ",", " ", "/", "/", " ", "c", "\n", "}">>,
    <<"J", "S", "O", "N", ":", " ", "R", "e", "s", "u", "l", "t", ":", " ", "{", "\"", "a", "\"", ":", "1", "}">>,
    <<"R", "e", "s", "u", "l", "t", ":", " ", "J", "S", "O", "N", ":", " ", "{", "\"", "a", "\"", ":", "1", "}">>,
    <<" ", " ", " ">>,
    <<"j", "s", "o", "n", ":", " ", "a", "n", "s", "w", "e", "r", ":", " ", "[", "1", "]">>,
    <<" ">> \o [i \in 1..(ExcerptLen + 1) |-> "x"] }

ExtractTexts == TokenTexts(ExtractTokens, MaxTokens) \cup ExtractCorpus

ExtractInit ==
  /\ x_pc = "entry"
  /\ \/ x_none = TRUE /\ x_input = <<>>
     \/ x_none = FALSE /\ x_input \in ExtractTexts
  /\ x_text = <<>>
  /\ x_trace = <<>>
  /\ x_calls = {}
  /\ x_result = [kind |-> "none"]

InitExtract == ExecIdle /\ ExtractInit /\ ScanIdle /\ CleanIdle /\ EmbedIdle

SpecExtract == InitExtract /\ [][ExtractNext]_vars

\* the longest text the scanner is run on, corpus aside
MaxScanLen == 5

\* the characters scanner inputs are made of
ScanChars == {"{", "}", "[", "]", "\"", "\\"}

\* longer scanner inputs
ScanCorpus ==
  { <<"{", "\"", "a", "\"", ":", " ", "\"", "x", "{", "y", "}", "z", "\"", "}">>,
    <<"x", " ", "{", "\"", "a", "\"", ":", "\"", "\\", "\"", "}", "\"", "}", " ", "y">>,
    <<"[", "{", "\"", "a", "\"", ":", "1", "}", ",", "{", "\"", "a", "\"", ":", "2", "}", "]">>,
    <<"a", " ", "[", "1", ",", "\"", "]", "\"", "]", " ", "b">>,
    <<"{", "\"", "a", "\"", ":", "1", ",", "}">> }

ScanTexts == TextsUpTo(ScanChars, MaxScanLen) \cup ScanCorpus

ScanInit ==
  /\ s_pc = "entry"
  /\ s_text \in ScanTexts
  /\ s_start_char \in {"{", "["}
  /\ s_start_idx = 0
  /\ s_i = 0
  /\ depth = 0
  /\ in_string = FALSE
  /\ escape_next = FALSE
  /\ s_json_str = <<>>
  /\ s_result = Fail

InitScan == ExecIdle /\ ExtractIdle /\ ScanInit /\ CleanIdle /\ EmbedIdle

SpecScan == InitScan /\ [][ScanNext]_vars

\* the most tokens a cleaner input is made of
MaxCleanTokens == 3

\* the pieces cleaner inputs are made of
CleanTokens ==
  { <<"[">>,
    <<"]">>,
    <<"{">>,
    <<"}">>,
    <<",">>,
    <<"1">>,
    <<"\"", "a", "\"", ":">>,
    <<"\"", "/", "/", "\"">>,
    <<"\"", ",", "]", "\"">>,
    <<"/", "/">>,
    <<"/", "*">>,
    <<"*", "/">>,
    <<"\n">>,
    <<" ">> }

\* longer cleaner inputs
CleanCorpus ==
  { <<"{", "\"", "a", "\"", ":", "1", ",", " ", "/", "/", " ", "c", "\n", "}">>,
    <<"{", "\"", "a", "\"", ":", " ", "\"", "h", "t", "t", "p", ":", "/", "/", "x", "\"", ",", "}">>,
    <<"{", "\"", "a", "\"", ":", "[", "1", ",", "2", ",", "]", ",", "}">>,
    <<"{", "\"", "a", "\"", ":", "1", " ", "/", "*", " ", "c", " ", "*", "/", ",", "}">> }

CleanTexts == TokenTexts(CleanTokens, MaxCleanTokens) \cup CleanCorpus

CleanInit ==
  /\ c_pc = "input"
  /\ c_input \in CleanTexts
  /\ c_text = c_input
  /\ c_prev = <<>>

InitClean == ExecIdle /\ ExtractIdle /\ ScanIdle /\ CleanInit /\ EmbedIdle

SpecClean == InitClean /\ [][CleanNext]_vars

\* the most texts one encode_documents call is given
MaxTexts == 3

\* the texts embedded
EmbedTexts == {"a", "b", "c"}

TextLists == UNION {[1..n -> EmbedTexts] : n \in 0..MaxTexts}

EmbedInit ==
  /\ e_pc = "entry"
  /\ e_texts \in TextLists
  /\ e_delivery = <<>>
  /\ e_data = <<>>
  /\ e_result = [kind |-> "none"]

InitEmbed == ExecIdle /\ ExtractIdle /\ ScanIdle /\ CleanIdle /\ EmbedInit

SpecEmbed == InitEmbed /\ [][EmbedNext]_vars

(***************************************************************************)
(* Properties of chat_completion (under SpecExec)                          *)
(***************************************************************************)

\* attempt k, wait w, attempt k+1, wait 2w, ..., attempt n-1
RECURSIVE ExpectedEvents(_, _, _)
ExpectedEvents(k, n, w) ==
  IF k >= n - 1 THEN << <<"attempt", k>> >>
  ELSE << <<"attempt", k>>, <<"wait", w>> >> \o ExpectedEvents(k + 1, n, 2 * w)

CountOf(tag) == Cardinality({i \in 1..Len(events) : events[i][1] = tag})

\* C1: with max_retries = n >= 1 and every attempt failing, the calls and sleeps
\* are exactly attempt 0, wait 1, attempt 1, wait 2, ..., attempt n-1 (n attempts,
\* n-1 waits, none after the last failure), never two calls in flight, and the
\* call then raises the backend's failure.
C1_RetrySequence ==
  /\ in_flight \in {0, 1}
  /\ (pc \in {"loop", "sleeping", "raised"} => in_flight = 0)
  /\ (pc = "raised" /\ max_retries >= 1) =>
       /\ events = ExpectedEvents(0, max_retries, 1)
       /\ CountOf("attempt") = max_retries
       /\ CountOf("wait") = max_retries - 1
       /\ result.kind = "raised"
       /\ result.cause.kind \in FailureKinds

C1_Witness ==
  /\ pc = "raised"
  /\ max_retries = 4
  /\ events = << <<"attempt", 0>>, <<"wait", 1>>, <<"attempt", 1>>, <<"wait", 2>>,
                 <<"attempt", 2>>, <<"wait", 4>>, <<"attempt", 3>> >>

\* C2: when attempt k is the first to succeed, its text is returned at once:
\* attempts 0..k were made with the waits 1, 2, ..., 2^(k-1) between them, the
\* function has returned as soon as a text is obtained, and nothing follows.
C2_FirstSuccessReturns ==
  /\ (result.kind = "text" => pc = "returned")
  /\ pc = "returned" =>
       /\ attempt < max_retries
       /\ events = ExpectedEvents(0, attempt + 1, 1)
       /\ CountOf("attempt") = attempt + 1
       /\ CountOf("wait") = attempt
       /\ result = [kind |-> "text", text |-> payload]
       /\ ~ENABLED ExecNext

C2_Witness ==
  /\ pc = "returned"
  /\ attempt = 2
  /\ events = << <<"attempt", 0>>, <<"wait", 1>>, <<"attempt", 1>>, <<"wait", 2>>,
                 <<"attempt", 2>> >>

\* C3: in streaming mode, after attempts that failed mid-delivery, the returned
\* text is the content of the successful attempt alone; nothing aggregated by a
\* failed attempt is part of it.
C3_NoCrossAttemptLeak ==
  (pc = "returned" /\ use_streaming /\ attempt > 0) =>
    /\ result.kind = "text"
    /\ result.text = payload

C3_Witness ==
  /\ pc = "returned"
  /\ use_streaming
  /\ discarded
  /\ attempt > 0
  /\ result.text # <<>>

\* the text of the increments that carry a fragment, in delivery order
RECURSIVE FragmentsText(_)
FragmentsText(increments) ==
  IF increments = <<>> THEN <<>>
  ELSE LET first == Head(increments)
       IN  (IF first.choices = 0 \/ ~first.has_content THEN <<>> ELSE first.content)
             \o FragmentsText(Tail(increments))

\* C4: after every sequence of increments of an attempt the aggregated text is
\* the concatenation, in delivery order, of the increments that carry a fragment
\* (those without choices or without content add nothing); so a content delivered
\* in fragments and the same content delivered as one payload give the same text.
C4_AggregateIsConcatenation ==
  /\ pc = "streaming" =>
       /\ Join(full_content) = FragmentsText(delivered)
       /\ Join(full_content) \o remaining = payload
  /\ (pc = "returned" /\ use_streaming) =>
       /\ result.text = FragmentsText(delivered)
       /\ result.text = payload
  /\ (pc = "returned" /\ ~use_streaming) => result.text = payload

C4_Witness ==
  /\ pc = "returned"
  /\ use_streaming
  /\ payload = <<"a", " ">>
  /\ delivered = <<Fragment(<<"a">>), NoChoices, NoContent, Fragment(<<" ">>)>>
  /\ result.text = <<"a", " ">>

\* C15: when the retry budget is exhausted the error raised is the failure of
\* the last attempt made, not of an earlier one; and a failed attempt is always
\* followed by a retry or by the error being raised: the call never ends
\* anywhere but in a return of a successful attempt or in that raise.
C15_LastCauseSurfaced ==
  /\ (pc = "raised" /\ max_retries >= 1) =>
       /\ result.kind = "raised"
       /\ result.cause = last_exception
       /\ result.cause.kind \in FailureKinds
       /\ result.cause.attempt = max_retries - 1
       /\ events[Len(events)] = <<"attempt", max_retries - 1>>
  /\ last_exception # NoException =>
       \/ pc = "sleeping" /\ last_exception.attempt = attempt /\ attempt + 1 < max_retries
       \/ pc = "loop" /\ last_exception.attempt = attempt - 1 /\ attempt <= max_retries
       \/ /\ pc \in {"completion", "opening", "streaming", "returned"}
          /\ last_exception.attempt = attempt - 1
          /\ events[Len(events)] = <<"attempt", attempt>>
       \/ pc = "raised" /\ result.kind = "raised" /\ attempt = max_retries
  /\ ~ENABLED ExecNext => pc \in {"returned", "raised"}
  /\ result.kind = "text" => result.text = payload

C15_Witness ==
  /\ pc = "raised"
  /\ max_retries = 3
  /\ CountOf("attempt") = 3
  /\ result.cause = Cause("malformed", 2)

(***************************************************************************)
(* Properties of extract_json (under SpecExtract)                          *)
(***************************************************************************)

\* the order the specification gives: direct parse, labeled fenced block, generic
\* fenced block, balanced scan (object, array), best-effort suffix (object, array)
ClaimedOrder ==
  <<"direct", "labeled", "generic", "scan_obj", "scan_arr", "suffix_obj", "suffix_arr">>

\* the first strategy of the claimed order that yields a value on text, 0 if none
FirstSuccess(text) ==
  LET good == {k \in 1..Len(ClaimedOrder) : Apply(ClaimedOrder[k], text).ok}
  IN  IF good = {} THEN 0 ELSE CHOOSE k \in good : \A j \in good : k <= j

IsPrefixOf(a, b) == Len(a) <= Len(b) /\ a = SubSeq(b, 1, Len(a))

\* C5: the strategies are entered in the fixed order prefix strip, direct parse,
\* labeled fence, generic fence, balanced scan, best-effort suffix; the value
\* returned is that of the earliest strategy of this order that yields one, and
\* the call fails only after all of them have been entered and have failed.
C5_FixedOrderFirstSuccess ==
  /\ IsPrefixOf(x_trace, <<"prefix">> \o ClaimedOrder)
  /\ x_pc = "returned" =>
       LET k == FirstSuccess(Prepared(x_input))
       IN  /\ k # 0
           /\ x_trace = <<"prefix">> \o SubSeq(ClaimedOrder, 1, k)
           /\ x_result = [kind |-> "value",
                          value |-> Apply(ClaimedOrder[k], Prepared(x_input)).val,
                          by |-> ClaimedOrder[k]]
  /\ (x_pc = "raised" /\ ~IsEmptyResponse(x_none, x_input)) =>
       /\ FirstSuccess(Prepared(x_input)) = 0
       /\ x_trace = <<"prefix">> \o ClaimedOrder

C5_Witness ==
  /\ x_pc = "returned"
  /\ x_result.by = "generic"
  /\ Apply("scan_obj", x_text).ok
  /\ x_trace = <<"prefix", "direct", "labeled", "generic">>

\* C6: when the whole input parses directly, extract_json returns exactly that
\* value from the direct parse; no fence, scan, suffix or cleaner is ever used.
C6_DirectParseWins ==
  (~x_none /\ JsonLoads(x_input).ok) =>
    /\ x_pc \in {"entry", "prefix", "direct", "returned"}
    /\ "_clean_json_string" \notin x_calls
    /\ "_extract_balanced_json" \notin x_calls
    /\ x_pc = "returned" =>
         /\ x_result = [kind |-> "value", value |-> JsonLoads(x_input).val,
                        by |-> "direct"]
         /\ x_trace = <<"prefix", "direct">>
         /\ x_calls = {"json.loads"}

C6_Witness ==
  /\ x_pc = "returned"
  /\ x_input = <<"\n", "{", "\"", "a", "\"", ":", "1", "}", "\n">>
  /\ x_result.by = "direct"
  /\ x_result.value = <<"obj", [k \in {<<"a">>} |-> <<"num", 1>>]>>

\* the values of the labeled fenced blocks of text whose interior parses: a block
\* opens with the label at i and closes with a fence at j
LabeledBlocks(text) ==
  {<<i, j>> \in (1..Len(text)) \X (1..Len(text)) :
     /\ MatchAt(Lower(text), FenceJson, i)
     /\ j >= i + Len(FenceJson)
     /\ MatchAt(text, Fence, j)
     /\ JsonLoads(Slice(text, i + Len(FenceJson), j - 1)).ok}

InteriorValue(text, block) ==
  JsonLoads(Slice(text, block[1] + Len(FenceJson), block[2] - 1)).val

\* C7: when the text contains a labeled fenced block whose interior is valid,
\* extract_json returns the value of such an interior, whatever surrounds it.
C7_LabeledFenceReturned ==
  (x_pc \in {"returned", "raised"} /\ ~x_none /\ LabeledBlocks(x_input) # {}) =>
    /\ x_pc = "returned"
    /\ \E block \in LabeledBlocks(x_input) :
         x_result.value = InteriorValue(x_input, block)

\* text is made of whitespace alone (the empty text included)
WhitespaceOnly(text) == \A i \in 1..Len(text) : text[i] \in {" ", "\t", "\n", "\r"}

\* the call has ended on a text that is not blank and on which no strategy
\* yields a value
EndedWithoutValue ==
  /\ x_pc \in {"returned", "raised"}
  /\ ~x_none
  /\ ~WhitespaceOnly(x_input)
  /\ FirstSuccess(Prepared(x_input)) = 0

C13_BlankFailsBeforeAnyStrategy ==
  (x_none \/ WhitespaceOnly(x_input)) =>
    /\ x_pc \in {"entry", "raised"}
    /\ x_trace = <<>>
    /\ x_calls = {}
    /\ x_text = <<>>
    /\ x_pc = "raised" =>
         /\ x_result.kind = "ValueError"
         /\ x_result.message = "Empty response received"
         /\ ~ENABLED ExtractNext

C13_Witness ==
  /\ x_pc = "raised"
  /\ x_input = <<" ", "\n", " ">>
  /\ x_trace = <<>>
  /\ x_result.message = "Empty response received"

\* text starts, whatever the case of its letters, with phrase k of the list
StartsWithPhrase(text, k) == StartsWith(Lower(text), Lower(common_prefixes[k]))

\* text without the first n characters and without surrounding whitespace
Behead(text, n) == Strip(Slice(text, n + 1, Len(text)))

\* C16 as stated: the prefix strip removes at most one phrase of the list from
\* the front of the text (a text with two stacked phrases loses only the first).
C16_AtMostOnePhraseRemoved ==
  x_pc = "direct" =>
    LET stripped == Strip(x_input)
    IN  \/ x_text = stripped
        \/ \E k \in 1..Len(common_prefixes) :
             /\ StartsWithPhrase(stripped, k)
             /\ x_text = Behead(stripped, Len(common_prefixes[k]))

\* text without its whitespace
Squeeze(text) == SelectSeq(text, LAMBDA c : c \notin PyWhitespace)

\* the phrases of the list whose numbers are in chosen, from number k on, in
\* list order
RECURSIVE PhrasesOf(_, _)
PhrasesOf(chosen, k) ==
  IF k > Len(common_prefixes) THEN <<>>
  ELSE (IF k \in chosen THEN common_prefixes[k] ELSE <<>>) \o PhrasesOf(chosen, k + 1)

\* the largest number in chosen, 0 if there is none
LastOf(chosen) ==
  IF chosen = {} THEN 0 ELSE CHOOSE k \in chosen : \A j \in chosen : j <= k

\* C16 as amended: what the prefix strip removes from the front of the text is
\* a run of phrases of the list, matched whatever their case, each at most once
\* and in list order, with the whitespace around them; what is left starts with
\* no phrase that stands later in the list than the last one removed.
C16_PhrasesRemovedInListOrder ==
  x_pc = "direct" =>
    LET stripped == Strip(x_input)
        removed == Slice(stripped, 1, Len(stripped) - Len(x_text))
    IN  /\ stripped = removed \o x_text
        /\ x_text = Strip(x_text)
        /\ \E chosen \in SUBSET (1..Len(common_prefixes)) :
             /\ Squeeze(Lower(removed)) = Squeeze(Lower(PhrasesOf(chosen, 1)))
             /\ \A k \in (LastOf(chosen) + 1)..Len(common_prefixes) :
                  ~StartsWithPhrase(x_text, k)

C16_Witness ==
  /\ x_pc = "direct"
  /\ x_input = <<"j", "s", "o", "n", ":", " ", "a", "n", "s", "w", "e", "r", ":", " ", "[", "1", "]">>
  /\ x_text = <<"[", "1", "]">>

(***************************************************************************)
(* Properties of the balanced scanner (under SpecScan)                     *)
(***************************************************************************)

\* the number of backslashes that stand directly before position i, counted
\* back no further than position from
RECURSIVE BackslashRun(_, _, _)
BackslashRun(text, from, i) ==
  IF i - 1 >= from /\ text[i - 1] = "\\"
  THEN 1 + BackslashRun(text, from, i - 1)
  ELSE 0

\* the character at i is escaped: an odd run of backslashes stands before it
EscapedAt(text, from, i) == BackslashRun(text, from, i) % 2 = 1

\* position i lies inside a quoted string: an odd number of unescaped quotes
\* stands between from and i
InsideString(text, from, i) ==
  Cardinality({j \in from..(i - 1) :
                 text[j] = "\"" /\ ~EscapedAt(text, from, j)}) % 2 = 1

\* the character at i counts towards the depth
Structural(text, from, i) ==
  ~EscapedAt(text, from, i) /\ ~InsideString(text, from, i)

\* openers minus closers among the counting characters at from..i
DepthAt(text, from, i, open) ==
  Cardinality({j \in from..i : text[j] = open /\ Structural(text, from, j)})
    - Cardinality({j \in from..i :
                     text[j] = EndCharOf(open) /\ Structural(text, from, j)})

\* the first position after from where the depth outside strings is back at 0
ClosingPositions(text, from, open) ==
  {i \in from..Len(text) :
     /\ text[i] = EndCharOf(open)
     /\ Structural(text, from, i)
     /\ DepthAt(text, from, i, open) = 0}

FirstClosing(text, from, open) ==
  LET cs == ClosingPositions(text, from, open)
  IN  IF cs = {} THEN 0 ELSE CHOOSE i \in cs : \A j \in cs : i <= j

\* C8: the scanner's region starts at the first opening character and ends at
\* the first closing character at which the depth counted outside strings (and
\* outside escapes) is back at 0, never at a closing character inside a string;
\* opening and closing characters inside strings do not end it early.
C8_RegionIgnoresStrings ==
  (s_pc = "returned" /\ s_start_idx # 0) =>
    LET e == FirstClosing(s_text, s_start_idx, s_start_char)
    IN  /\ s_start_idx = Find(s_text, <<s_start_char>>, 1)
        /\ e = 0 => s_json_str = <<>> /\ s_result = Fail
        /\ e # 0 =>
             /\ s_json_str = Slice(s_text, s_start_idx, e)
             /\ s_i = e
             /\ depth = 0
             /\ ~InsideString(s_text, s_start_idx, s_i)

C8_Witness ==
  /\ s_pc = "returned"
  /\ s_text = <<"{", "\"", "a", "\"", ":", " ", "\"", "x", "{", "y", "}", "z", "\"", "}">>
  /\ s_json_str = s_text
  /\ s_result.ok

\* the depth in every state of a scan: 0 at the start, at least 1 once the
\* first opening character is consumed and until the match, never negative; a
\* match is reported only at a closing character outside strings at which the
\* depth is back at 0, and a scan whose depth is not back at 0 reports none
DepthInEveryState ==
  /\ depth >= 0
  /\ s_pc = "entry" => depth = 0
  /\ (s_pc = "loop" /\ s_i > s_start_idx) => depth >= 1
  /\ (s_json_str # <<>> \/ s_result.ok) =>
       /\ s_pc = "returned"
       /\ depth = 0
       /\ s_text[s_i] = EndCharOf(s_start_char)
       /\ Structural(s_text, s_start_idx, s_i)
       /\ s_json_str = Slice(s_text, s_start_idx, s_i)
  /\ (s_pc = "returned" /\ (s_start_idx = 0 \/ depth # 0)) =>
       /\ s_json_str = <<>>
       /\ s_result = Fail

\* the depth in every step of a scan: it changes only on the character under
\* the cursor when that is an opening character (by +1) or a closing character
\* (by -1) that stands outside every string and is not escaped
DepthInEveryStep ==
  depth' # depth =>
    /\ s_pc = "loop"
    /\ Structural(s_text, s_start_idx, s_i)
    /\ ~in_string
    /\ ~escape_next
    /\ \/ s_text[s_i] = s_start_char /\ depth' = depth + 1
       \/ s_text[s_i] = EndCharOf(s_start_char) /\ depth' = depth - 1

\* C17: in every run of the scanner the depth starts at 0, is at least 1 after
\* the first opening character, is never negative, changes only on opening and
\* closing characters outside strings and not escaped, and a match is reported
\* only at a closing character where the depth is back at 0; a scan whose depth
\* never returns to 0 reports no match.
C17_DepthDiscipline == []DepthInEveryState /\ [][DepthInEveryStep]_vars

C17_Witness ==
  /\ s_pc = "returned"
  /\ s_text = <<"x", " ", "{", "\"", "a", "\"", ":", "\"", "\\", "\"", "}", "\"", "}", " ", "y">>
  /\ s_start_char = "{"
  /\ depth = 0
  /\ s_i = 13
  /\ s_result.ok

\* C11: when the scan finds a balanced region whose direct parse fails and whose
\* cleaned form parses, the cleaned string is parsed and its value is returned.
C11_CleanedRegionParsed ==
  (/\ s_pc = "returned"
   /\ s_json_str # <<>>
   /\ ~JsonLoads(s_json_str).ok
   /\ JsonLoads(_clean_json_string(s_json_str)).ok) =>
    s_result = JsonLoads(_clean_json_string(s_json_str))

(***************************************************************************)
(* The balanced scan inside extract_json (under SpecExtract)               *)
(***************************************************************************)

\* the first balanced region of text that starts at the first occurrence of
\* open, <<>> if there is none
FirstRegion(text, open) ==
  LET from == Find(text, <<open>>, 1)
      e == IF from = 0 THEN 0 ELSE FirstClosing(text, from, open)
  IN  IF e = 0 THEN <<>> ELSE Slice(text, from, e)

\* the position of strategy in the trace, 0 if it has not been entered
EnteredAt(strategy) ==
  IF \E i \in 1..Len(x_trace) : x_trace[i] = strategy
  THEN CHOOSE i \in 1..Len(x_trace) : x_trace[i] = strategy
  ELSE 0

\* C18: the object scan comes before the array scan, each from the first
\* occurrence of its opening character: the array scan runs only after the
\* object scan has yielded no value, and whenever the first balanced object
\* region parses its value is what the balanced scan returns, also when an
\* array stands before or around it.
C18_ObjectScanBeforeArrayScan ==
  /\ EnteredAt("scan_arr") # 0 =>
       /\ EnteredAt("scan_obj") = EnteredAt("scan_arr") - 1
       /\ ~JsonLoads(FirstRegion(x_text, "{")).ok
  /\ (EnteredAt("scan_obj") # 0 /\ JsonLoads(FirstRegion(x_text, "{")).ok) =>
       /\ x_pc = "returned"
       /\ x_result = [kind |-> "value",
                      value |-> JsonLoads(FirstRegion(x_text, "{")).val,
                      by |-> "scan_obj"]
  /\ (x_pc = "returned" /\ x_result.by = "scan_arr") =>
       x_result.value = JsonLoads(FirstRegion(x_text, "[")).val

C18_Witness ==
  /\ x_pc = "returned"
  /\ x_input = <<"x", " ", "[", "{", "\"", "a", "\"", ":", "1", "}", ",", "{", "\"", "a", "\"", ":", "2", "}", "]", " ", "y">>
  /\ x_result.by = "scan_obj"
  /\ x_result.value = <<"obj", [k \in {<<"a">>} |-> <<"num", 1>>]>>
  /\ JsonLoads(FirstRegion(x_text, "[")).ok

(***************************************************************************)
(* Properties of the lenient cleaner (under SpecClean)                     *)
(***************************************************************************)

\* text without the character at position i
Without(text, i) == Slice(text, 1, i - 1) \o Slice(text, i + 1, Len(text))

\* the positions of a separator that stands directly before a closing bracket
\* or brace and is all that keeps text from being valid
SingleTrailingSeparators(text) ==
  {i \in 1..(Len(text) - 1) :
     /\ text[i] = ","
     /\ text[i + 1] \in {"}", "]"}
     /\ ~JsonLoads(text).ok
     /\ JsonLoads(Without(text, i)).ok}

\* C9: a text that is valid but for a single trailing separator directly before
\* a closing bracket or brace parses, once cleaned, to the value of the text
\* without that separator.
C9_TrailingSeparatorRepaired ==
  c_pc = "once" =>
    \A i \in SingleTrailingSeparators(c_input) :
      /\ JsonLoads(c_text).ok
      /\ JsonLoads(c_text).val = JsonLoads(Without(c_input, i)).val

\* C10: cleaning is idempotent: cleaning a cleaned text changes nothing.
C10_CleanIdempotent ==
  c_pc = "twice" => c_text = c_prev

(***************************************************************************)
(* Properties of encode_documents (under SpecEmbed)                        *)
(***************************************************************************)

\* C14: whatever the order in which the backend delivers the result items,
\* the returned list is in submission order: position i holds the vector of the
\* delivered item whose index is i, which is the vector of the i-th text.
C14_SubmissionOrderRestored ==
  (e_pc = "returned" /\ e_texts # <<>>) =>
    /\ e_result.kind = "vectors"
    /\ Len(e_result.vectors) = Len(e_texts)
    /\ \A i \in 1..Len(e_texts) :
         /\ \E k \in 1..Len(e_delivery) :
              /\ e_delivery[k].index = i - 1
              /\ e_result.vectors[i] = e_delivery[k].embedding
         /\ e_result.vectors[i] = VectorOf(e_texts[i])

C14_Witness ==
  /\ e_pc = "returned"
  /\ e_texts = <<"a", "b", "c">>
  /\ e_delivery = <<Item(2, <<"c">>), Item(1, <<"b">>), Item(0, <<"a">>)>>
  /\ e_result.vectors = << <<"a">>, <<"b">>, <<"c">> >>

(***************************************************************************)
(* Blank responses and an empty retry budget (under SpecExec)              *)
(***************************************************************************)

\* C19: an attempt that answers with an empty or whitespace-only text is a
\* success for chat_completion: the text is returned at that attempt, with no
\* wait and no further attempt after it, and is one that extract_json rejects
\* with its empty-response error.
C19_BlankResponseNotRetried ==
  /\ (pc = "returned" /\ WhitespaceOnly(result.text)) =>
       /\ result.kind = "text"
       /\ events[Len(events)] = <<"attempt", attempt>>
       /\ CountOf("attempt") = attempt + 1
       /\ CountOf("wait") = attempt
       /\ last_exception = NoException \/ last_exception.attempt < attempt
       /\ ~ENABLED ExecNext
       /\ IsEmptyResponse(FALSE, result.text)
  /\ (~use_streaming /\ payload # <<>> /\ WhitespaceOnly(payload)) =>
       /\ pc = "returned"
       /\ result = [kind |-> "text", text |-> payload]

C19_Witness ==
  /\ pc = "returned"
  /\ max_retries = 3
  /\ attempt = 0
  /\ result.text = <<" ", " ">>
  /\ events = << <<"attempt", 0>> >>

\* C20: a text is returned only by an attempt that succeeded; with
\* max_retries <= 0 there is no backend call and no wait, and the call ends
\* with an error (the TypeError of raising None), never with a text.
C20_NoValueWithoutSuccess ==
  /\ result.kind = "text" =>
       /\ pc = "returned"
       /\ CountOf("attempt") >= 1
       /\ events[Len(events)] = <<"attempt", attempt>>
       /\ last_exception = NoException \/ last_exception.attempt < attempt
  /\ pc = "returned" => result.kind = "text"
  /\ max_retries <= 0 =>
       /\ events = <<>>
       /\ in_flight = 0
       /\ pc \in {"loop", "raised"}
       /\ pc = "loop" => ENABLED RaiseLast
       /\ pc = "raised" => result = [kind |-> "raised", cause |-> RaiseNoneTypeError]

C20_Witness ==
  /\ pc = "raised"
  /\ max_retries = 0
  /\ events = <<>>
  /\ result.cause = RaiseNoneTypeError

====
